---- MODULE Spec2Model ----
(***************************************************************************)
(* Model of rss.py, a terminal RSS reader: display_feed (the list view),    *)
(* display_article (the article view), their command handlers and the      *)
(* pagination arithmetic both views share.                                  *)
(*                                                                          *)
(* The terminal height is an input the environment may change at any time; *)
(* the program reads it where the source reads console.height.  An entry   *)
(* is a record with the fields the views use; its converted content is a   *)
(* sequence of numbered lines.                                              *)
(***************************************************************************)
EXTENDS Integers, Sequences, FiniteSets, TLC

\* ------------------------------------------------------------------ bounds
MaxEntries == 3      \* a feed has 0..MaxEntries entries
MaxLines   == 2      \* a converted article has 1..MaxLines lines
MaxHeight  == 32     \* tallest terminal considered

\* -------------------------------------------------------- program constants
LINES_PER_ENTRY     == 3
HEADER_FOOTER_LINES == 8
ARTICLE_RESERVED    == 30

\* Terminal heights: one below the list view's reserved rows (negative list
\* capacity), one giving list capacity 0, two giving list capacities 1 and 2,
\* the height at which the article capacity is 0, and the heights above it.
Heights == {5, 9, 11, 14, ARTICLE_RESERVED} \cup ((ARTICLE_RESERVED + 1)..MaxHeight)

\* ------------------------------------------------------------ Python helpers
\* a // b for b > 0 (Python floors, as \div does)
PyFloorDiv(a, b) == a \div b

\* math.ceil(a / b) for a >= 0 and b # 0
PyCeilDiv(a, b) ==
    IF b > 0 THEN (a + b - 1) \div b
             ELSE -(a \div (-b))

\* s[start:end] with Python's treatment of negative and out-of-range indices
PySlice(s, start, end) ==
    LET n == Len(s)
        Clamp(i) == IF i < 0
                    THEN (IF i + n < 0 THEN 0 ELSE i + n)
                    ELSE (IF i > n THEN n ELSE i)
        lo == Clamp(start)
        hi == Clamp(end)
    IN  IF lo >= hi THEN << >> ELSE SubSeq(s, lo + 1, hi)

\* dict.get(key, default)
Get(d, key, default) == IF key \in DOMAIN d THEN d[key] ELSE default

\* ------------------------------------------------------------------- inputs
\* The feeds: 0..MaxEntries entries, each with its own link; the converted
\* contents run through the lengths 1..MaxLines from entry to entry.
Feeds ==
    { [i \in 1..n |-> [id |-> i, link |-> 100 + i,
                       nlines |-> 1 + ((i - 1) % MaxLines)]] : n \in 0..MaxEntries }

\* markdown_content.split('\n'): the lines of the converted content, numbered
Lines(entry) == [i \in 1..entry.nlines |-> i]

\* What the user can type.  "^2" stands for the one-character input U+00B2
\* (SUPERSCRIPT TWO), for which str.isdigit() is true and int() raises.
DigitInputs == { ToString(n) : n \in 0..(MaxEntries + 1) }
RawInputs   == {"q", "k", "j", "o", "s", "x", "Q", " k ", "^2"} \cup DigitInputs

\* session.prompt().lower().strip()
Normalize(raw) ==
    CASE raw = "Q"   -> "q"
      [] raw = " k " -> "k"
      [] OTHER       -> raw

\* str.isdigit()
IsDigit(c) == c \in DigitInputs \cup {"^2"}

\* int(c) succeeds
IntParses(c) == c \in DigitInputs

\* int(c)
int(c) == CHOOSE n \in 0..(MaxEntries + 1) : ToString(n) = c

\* ------------------------------------------------------------------- state
VARIABLES
    feed,              \* feed.entries
    height,            \* the terminal's current height (console.height)
    pc,                \* "start" | "listing" | "article" | "done" | "crashed"
    ENTRIES_PER_PAGE,  \* display_feed's local
    total_pages,       \* display_feed's local
    current_page,      \* display_feed's local
    article,           \* display_article's argument, NoArticle outside it
    CONTENT_HEIGHT,    \* display_article's local
    art_total_pages,   \* display_article's total_pages
    art_current_page,  \* display_article's current_page
    command,           \* the last command read by a view loop
    effects,           \* external calls made by the last step
    screen,            \* what the last render put on the terminal
    fn_call,           \* a text/export function applied on its own, with its arguments
    fn_result          \* what that function returned

vars == <<feed, height, pc, ENTRIES_PER_PAGE, total_pages, current_page,
          article, CONTENT_HEIGHT, art_total_pages, art_current_page,
          command, effects, screen, fn_call, fn_result>>

feedLocals    == <<ENTRIES_PER_PAGE, total_pages, current_page>>
articleLocals == <<article, CONTENT_HEIGHT, art_total_pages, art_current_page>>

NoArticle == [id |-> 0]
NoScreen  == [view |-> "none"]
NoCall    == [fn |-> "none"]
NoResult  == [done |-> FALSE]
textVars  == <<fn_call, fn_result>>

Init ==
    /\ feed \in Feeds
    /\ height \in Heights
    /\ pc = "start"
    /\ ENTRIES_PER_PAGE = 0
    /\ total_pages = 0
    /\ current_page = 0
    /\ article = NoArticle
    /\ CONTENT_HEIGHT = 0
    /\ art_total_pages = 0
    /\ art_current_page = 0
    /\ command = ""
    /\ effects = << >>
    /\ screen = NoScreen
    /\ fn_call = NoCall
    /\ fn_result = NoResult

\* ---------------------------------------------------------------- list view
\* display_feed.get_page_entries
get_page_entries(page_num, entries, epp) ==
    LET start_idx == (page_num - 1) * epp
        end_idx   == start_idx + epp
    IN  PySlice(entries, start_idx, end_idx)

\* display_feed.create_table: the numbered rows of the current page
create_table(entries, page, epp) ==
    LET start_idx == (page - 1) * epp + 1
    IN  [k \in 1..Len(entries) |-> [num |-> start_idx + k - 1, id |-> entries[k].id]]

\* display_feed.create_layout
feed_create_layout(entries, page, total, epp) ==
    [view  |-> "feed",
     page  |-> page,
     of    |-> total,
     rows  |-> create_table(get_page_entries(page, entries, epp), page, epp),
     pick  |-> Len(entries)]

\* The environment resizes the terminal; nothing in the program runs.
Resize ==
    /\ pc \in {"start", "listing", "article"}
    /\ \E h \in Heights : h # height /\ height' = h
    /\ UNCHANGED <<feed, pc, feedLocals, articleLocals, command, effects, screen, textVars>>

\* display_feed up to and including the first render (lines 187-196, 282)
Start ==
    /\ pc = "start"
    /\ LET epp == PyFloorDiv(height - HEADER_FOOTER_LINES, LINES_PER_ENTRY)
       IN  /\ ENTRIES_PER_PAGE' = epp
           /\ IF epp = 0
              THEN \* ZeroDivisionError at line 194
                   /\ pc' = "crashed"
                   /\ total_pages' = 0
                   /\ current_page' = 0
                   /\ screen' = NoScreen
              ELSE /\ pc' = "listing"
                   /\ total_pages' = PyCeilDiv(Len(feed), epp)
                   /\ current_page' = 1
                   /\ screen' = feed_create_layout(feed, 1, total_pages', epp)
    /\ UNCHANGED <<feed, height, articleLocals, command, effects, textVars>>

\* feed_handle_command with the list cursor reset when an entry is selected
feed_handle_command_reset(c, page, total, n) ==
    IF c = "q" THEN [ret |-> "False", page |-> page, num |-> 0]
    ELSE IF c = "k" /\ page < total THEN [ret |-> "True", page |-> page + 1, num |-> 0]
    ELSE IF c = "j" /\ page > 1 THEN [ret |-> "True", page |-> page - 1, num |-> 0]
    ELSE IF IsDigit(c)
         THEN IF ~IntParses(c)
              THEN [ret |-> "ValueError", page |-> page, num |-> 0]
              ELSE IF 1 <= int(c) /\ int(c) <= n
                   THEN [ret |-> "article", page |-> 1, num |-> int(c)]
                   ELSE [ret |-> "True", page |-> page, num |-> 0]
    ELSE [ret |-> "True", page |-> page, num |-> 0]

\* feed_handle_command with 'q' treated as any unrecognized command
feed_handle_command_q_ignored(c, page, total, n) ==
    IF c = "k" /\ page < total THEN [ret |-> "True", page |-> page + 1, num |-> 0]
    ELSE IF c = "j" /\ page > 1 THEN [ret |-> "True", page |-> page - 1, num |-> 0]
    ELSE IF IsDigit(c)
         THEN IF ~IntParses(c)
              THEN [ret |-> "ValueError", page |-> page, num |-> 0]
              ELSE IF 1 <= int(c) /\ int(c) <= n
                   THEN [ret |-> "article", page |-> page, num |-> int(c)]
                   ELSE [ret |-> "True", page |-> page, num |-> 0]
    ELSE [ret |-> "True", page |-> page, num |-> 0]

\* display_feed.handle_command: the value returned and current_page after it
feed_handle_command(c, page, total, n) ==
    IF c = "q" THEN [ret |-> "False", page |-> page, num |-> 0]
    ELSE IF c = "k" /\ page < total THEN [ret |-> "True", page |-> page + 1, num |-> 0]
    ELSE IF c = "j" /\ page > 1 THEN [ret |-> "True", page |-> page - 1, num |-> 0]
    ELSE IF IsDigit(c)
         THEN IF ~IntParses(c)
              THEN [ret |-> "ValueError", page |-> page, num |-> 0]
              ELSE IF 1 <= int(c) /\ int(c) <= n
                   THEN [ret |-> "article", page |-> page, num |-> int(c)]
                   ELSE [ret |-> "True", page |-> page, num |-> 0]
    ELSE [ret |-> "True", page |-> page, num |-> 0]

\* ------------------------------------------------------------- article view
\* display_article.get_page_content
get_page_content(page_num, lines, ch) ==
    LET start_idx == (page_num - 1) * ch
        end_idx   == start_idx + ch
    IN  PySlice(lines, start_idx, end_idx)

\* display_article.create_layout: the panel title and the page's lines
article_create_layout(entry, page, total, ch) ==
    [view    |-> "article",
     id      |-> entry.id,
     page    |-> page,
     of      |-> total,
     content |-> get_page_content(page, Lines(entry), ch)]

\* article_handle_command with 'o' returning False, as 's' does
article_handle_command_open_closes(c, page, total) ==
    IF c = "q" THEN [ret |-> "False", page |-> page, call |-> "none"]
    ELSE IF c = "k" /\ page < total THEN [ret |-> "True", page |-> page + 1, call |-> "none"]
    ELSE IF c = "j" /\ page > 1 THEN [ret |-> "True", page |-> page - 1, call |-> "none"]
    ELSE IF c = "o" THEN [ret |-> "False", page |-> page, call |-> "open"]
    ELSE IF c = "s" THEN [ret |-> "False", page |-> page, call |-> "save"]
    ELSE [ret |-> "True", page |-> page, call |-> "none"]

\* display_article.handle_command: the value returned, current_page after it
\* and the external call it makes
article_handle_command(c, page, total) ==
    IF c = "q" THEN [ret |-> "False", page |-> page, call |-> "none"]
    ELSE IF c = "k" /\ page < total THEN [ret |-> "True", page |-> page + 1, call |-> "none"]
    ELSE IF c = "j" /\ page > 1 THEN [ret |-> "True", page |-> page - 1, call |-> "none"]
    ELSE IF c = "o" THEN [ret |-> "True", page |-> page, call |-> "open"]
    ELSE IF c = "s" THEN [ret |-> "False", page |-> page, call |-> "save"]
    ELSE [ret |-> "True", page |-> page, call |-> "none"]

\* save_as_markdown: os.makedirs and open either succeed or raise OSError
save_as_markdown(entry, io_ok) ==
    IF io_ok THEN [raised |-> FALSE, filename |-> entry.id]
             ELSE [raised |-> TRUE,  filename |-> 0]

\* An uncaught exception leaves both view loops and ends the process.
Crash ==
    /\ pc' = "crashed"
    /\ screen' = NoScreen

\* display_article(entry) up to and including its first render (lines 90-103, 165)
EnterArticle(entry) ==
    LET ch == height - ARTICLE_RESERVED
    IN  /\ article' = entry
        /\ CONTENT_HEIGHT' = ch
        /\ IF ch = 0
           THEN \* ZeroDivisionError at line 101
                /\ Crash
                /\ art_total_pages' = 0
                /\ art_current_page' = 0
           ELSE /\ pc' = "article"
                /\ art_total_pages' = PyCeilDiv(Len(Lines(entry)), ch)
                /\ art_current_page' = 1
                /\ screen' = article_create_layout(entry, 1, art_total_pages', ch)

\* display_article returns; display_feed renders the list again (lines 292-294)
LeaveArticle ==
    /\ pc' = "listing"
    /\ article' = NoArticle
    /\ CONTENT_HEIGHT' = 0
    /\ art_total_pages' = 0
    /\ art_current_page' = 0
    /\ screen' = feed_create_layout(feed, current_page, total_pages, ENTRIES_PER_PAGE)

\* One iteration of display_feed's loop (lines 283-294)
FeedLoop(raw) ==
    /\ pc = "listing"
    /\ LET c == Normalize(raw)
           r == feed_handle_command(c, current_page, total_pages, Len(feed))
       IN  /\ command' = c
           /\ effects' = << >>
           /\ current_page' = r.page
           /\ UNCHANGED <<feed, height, ENTRIES_PER_PAGE, total_pages, textVars>>
           /\ CASE r.ret = "False" ->
                     /\ pc' = "done"
                     /\ screen' = NoScreen
                     /\ UNCHANGED articleLocals
                [] r.ret = "ValueError" ->
                     /\ Crash
                     /\ UNCHANGED articleLocals
                [] r.ret = "article" ->
                     EnterArticle(feed[r.num])
                [] r.ret = "True" ->
                     /\ pc' = "listing"
                     /\ screen' = feed_create_layout(feed, r.page, total_pages, ENTRIES_PER_PAGE)
                     /\ UNCHANGED articleLocals

\* The calls display_article.handle_command makes, in order
article_calls(call, entry, s) ==
    CASE call = "open" ->
           <<[call |-> "webbrowser.open", arg |-> Get(entry, "link", 0)]>>
      [] call = "save" /\ s.raised ->
           <<[call |-> "save_as_markdown", arg |-> entry.id],
             [call |-> "raise OSError", arg |-> entry.id]>>
      [] call = "save" /\ ~s.raised ->
           <<[call |-> "save_as_markdown", arg |-> entry.id],
             [call |-> "print saved", arg |-> s.filename]>>
      [] OTHER -> << >>

\* One iteration of display_article's loop (lines 166-174), and the return
\* into display_feed's loop when it breaks
ArticleLoop(raw) ==
    /\ pc = "article"
    /\ \E io_ok \in BOOLEAN :
         LET c == Normalize(raw)
             r == article_handle_command(c, art_current_page, art_total_pages)
             s == save_as_markdown(article, io_ok)
         IN  /\ command' = c
             /\ effects' = article_calls(r.call, article, s)
             /\ UNCHANGED <<feed, height, feedLocals, textVars>>
             /\ IF r.call = "save" /\ s.raised
                THEN \* OSError propagates out of both loops
                     /\ Crash
                     /\ UNCHANGED articleLocals
                ELSE IF r.ret = "False"
                THEN LeaveArticle
                ELSE /\ art_current_page' = r.page
                     /\ screen' = article_create_layout(article, r.page,
                                                        art_total_pages, CONTENT_HEIGHT)
                     /\ UNCHANGED <<pc, article, CONTENT_HEIGHT, art_total_pages>>

Next ==
    \/ Start
    \/ Resize
    \/ \E raw \in RawInputs : FeedLoop(raw)
    \/ \E raw \in RawInputs : ArticleLoop(raw)

Spec == Init /\ [][Next]_vars

\* ============================================ text and export functions
\* A Python str is a sequence of one-character strings.

\* ------------------------------------------------------------------ bounds
MaxTitle == 3        \* generated titles have 0..MaxTitle characters
MaxText  == 5        \* texts given to truncate_text have 1..MaxText characters
MaxWidth == 5        \* widths given to truncate_text are 1..MaxWidth

UpperLetters == <<"A", "B", "C", "D", "E", "F", "G", "H", "I", "J", "K", "L", "M",
                  "N", "O", "P", "Q", "R", "S", "T", "U", "V", "W", "X", "Y", "Z">>
LowerLetters == <<"a", "b", "c", "d", "e", "f", "g", "h", "i", "j", "k", "l", "m",
                  "n", "o", "p", "q", "r", "s", "t", "u", "v", "w", "x", "y", "z">>
DigitChars   == {"0", "1", "2", "3", "4", "5", "6", "7", "8", "9"}

\* str.lower() on one character
Lower(ch) ==
    IF \E i \in 1..26 : UpperLetters[i] = ch
    THEN LowerLetters[CHOOSE i \in 1..26 : UpperLetters[i] = ch]
    ELSE ch

\* the regular expression classes \w and \s
IsWordChar(ch)  == ch \in {UpperLetters[i] : i \in 1..26} \cup {LowerLetters[i] : i \in 1..26}
                          \cup DigitChars \cup {"_"}
IsSpaceChar(ch) == ch \in {" ", "\t"}

\* the class [-\s]
IsSepChar(ch) == ch = "-" \/ IsSpaceChar(ch)

\* re.sub(r'[^\w\s-]', '', text)
RemoveNonSlug(text) ==
    LET Keep(ch) == IsWordChar(ch) \/ IsSpaceChar(ch) \/ ch = "-"
    IN  SelectSeq(text, Keep)

\* text without its leading characters of the class [-\s]
RECURSIVE DropSeps(_)
DropSeps(text) ==
    IF text # << >> /\ IsSepChar(Head(text)) THEN DropSeps(Tail(text)) ELSE text

\* re.sub(r'[-\s]+', '-', text)
RECURSIVE CollapseSeps(_)
CollapseSeps(text) ==
    IF text = << >> THEN << >>
    ELSE IF IsSepChar(Head(text))
         THEN <<"-">> \o CollapseSeps(DropSeps(text))
         ELSE <<Head(text)>> \o CollapseSeps(Tail(text))

\* str.strip(ch)
RECURSIVE LStrip(_, _)
LStrip(text, ch) ==
    IF text # << >> /\ Head(text) = ch THEN LStrip(Tail(text), ch) ELSE text

RECURSIVE RStrip(_, _)
RStrip(text, ch) ==
    IF text # << >> /\ text[Len(text)] = ch
    THEN RStrip(SubSeq(text, 1, Len(text) - 1), ch)
    ELSE text

Strip(text, ch) == RStrip(LStrip(text, ch), ch)

\* slugify without the final strip('-')
slugify_no_strip(text) ==
    CollapseSeps(RemoveNonSlug([i \in 1..Len(text) |-> Lower(text[i])]))

\* slugify
slugify(text) ==
    Strip(CollapseSeps(RemoveNonSlug([i \in 1..Len(text) |-> Lower(text[i])])), "-")

Ellipsis == <<".", ".", ".">>

\* truncate_text
truncate_text(text, max_width) ==
    IF Len(text) <= max_width
    THEN text
    ELSE PySlice(text, 0, max_width - 3) \o Ellipsis

\* ------------------------------------------------------------ dates, export
TITLE_WIDTH   == 70
SUMMARY_WIDTH == 120
DATE_PREFIX   == 10

\* the placeholders of the source
NoTitle     == <<"N", "o", " ", "t", "i", "t", "l", "e">>
Untitled    == <<"U", "n", "t", "i", "t", "l", "e", "d">>
NoDate      == <<"N", "o", " ", "d", "a", "t", "e">>
NoSummary   == <<"N", "o", " ", "s", "u", "m", "m", "a", "r", "y">>
NoContent   == <<"N", "o", " ", "c", "o", "n", "t", "e", "n", "t", " ", "a", "v", "a", "i", "l", "a", "b", "l", "e">>
ArticlesDir == <<"a", "r", "t", "i", "c", "l", "e", "s", "/">>
MdSuffix    == <<".", "m", "d">>
OpenP       == <<"<", "p", ">">>
CloseP      == <<"<", "/", "p", ">">>

\* what indexing a missing key produces
KeyError == <<"KeyError">>

\* None, and the empty string: both are false in a condition
None == ""

\* dateutil's parser.parse on the date texts of the generated entries
ParseDate(date_text) ==
    CASE date_text = "Tue, 05 Mar 2024 10:00:00 GMT" -> [y |-> 2024, m |-> 3,  d |-> 5]
      [] date_text = "2024-11-23T08:30:00Z"          -> [y |-> 2024, m |-> 11, d |-> 23]
      [] date_text = "2023-12-31"                    -> [y |-> 2023, m |-> 12, d |-> 31]

\* str(n) for n >= 0
RECURSIVE Dec(_)
Dec(n) == IF n < 10 THEN <<ToString(n)>> ELSE Dec(n \div 10) \o <<ToString(n % 10)>>

\* zero-padded two digits, as %m and %d give
Pad2(n) == IF n < 10 THEN <<"0">> \o Dec(n) ELSE Dec(n)

\* %b in the C locale
MonthAbbr == <<<<"J", "a", "n">>,
               <<"F", "e", "b">>,
               <<"M", "a", "r">>,
               <<"A", "p", "r">>,
               <<"M", "a", "y">>,
               <<"J", "u", "n">>,
               <<"J", "u", "l">>,
               <<"A", "u", "g">>,
               <<"S", "e", "p">>,
               <<"O", "c", "t">>,
               <<"N", "o", "v">>,
               <<"D", "e", "c">>>>

\* strftime("%b %-d, %Y")
StrfPretty(date) ==
    MonthAbbr[date.m] \o <<" ">> \o Dec(date.d) \o <<",", " ">> \o Dec(date.y)

\* strftime('%Y-%m-%d')
StrfIso(date) ==
    Dec(date.y) \o <<"-">> \o Pad2(date.m) \o <<"-">> \o Pad2(date.d)

\* get_date with article['published'] in place of article.get('published')
get_date_unguarded(entry, pretty, now) ==
    IF "published" \notin DOMAIN entry THEN KeyError
    ELSE IF entry["published"] # None
    THEN StrfPretty(ParseDate(entry["published"]))
    ELSE IF Get(entry, "updated", None) # None
    THEN StrfPretty(ParseDate(Get(entry, "updated", None)))
    ELSE IF ~pretty
    THEN StrfIso(now)
    ELSE NoDate

\* get_date; now is datetime.now()
get_date(entry, pretty, now) ==
    IF Get(entry, "published", None) # None
    THEN StrfPretty(ParseDate(Get(entry, "published", None)))
    ELSE IF Get(entry, "updated", None) # None
    THEN StrfPretty(ParseDate(Get(entry, "updated", None)))
    ELSE IF ~pretty
    THEN StrfIso(now)
    ELSE NoDate

\* str.replace(pattern, '')
RECURSIVE RemoveAll(_, _)
RemoveAll(text, pattern) ==
    IF Len(text) < Len(pattern) THEN text
    ELSE IF SubSeq(text, 1, Len(pattern)) = pattern
         THEN RemoveAll(SubSeq(text, Len(pattern) + 1, Len(text)), pattern)
         ELSE <<Head(text)>> \o RemoveAll(Tail(text), pattern)

\* article.get('content', [{'value': article.get('summary', ...)}])[0]['value']
article_content(entry) ==
    Get(entry, "content",
        <<[value |-> Get(entry, "summary", NoContent)]>>)[1].value

\* one row of display_feed.create_table, without its number
list_row(entry, now) ==
    [date    |-> get_date(entry, TRUE, now),
     title   |-> truncate_text(Get(entry, "title", NoTitle), TITLE_WIDTH),
     summary |-> truncate_text(
                   RemoveAll(RemoveAll(Get(entry, "summary", NoSummary), OpenP), CloseP),
                   SUMMARY_WIDTH)]

\* what display_article shows of the entry: header title, header date, body
article_view(entry, now) ==
    [title   |-> Get(entry, "title", NoTitle),
     date    |-> get_date(entry, TRUE, now),
     content |-> article_content(entry)]

\* the file save_as_markdown writes: its path, frontmatter and body source
export_document(entry, now) ==
    LET title == Get(entry, "title", Untitled)
        date  == get_date(entry, FALSE, now)
    IN  [filename |-> ArticlesDir \o PySlice(date, 0, DATE_PREFIX) \o <<"-">>
                        \o slugify(title) \o MdSuffix,
         title    |-> title,
         date     |-> date,
         url      |-> Get(entry, "link", ""),
         content  |-> article_content(entry)]

\* ------------------------------------------------------------------- inputs
RECURSIVE StringsUpTo(_, _)
StringsUpTo(alphabet, n) ==
    IF n = 0 THEN {<< >>}
    ELSE LET shorter == StringsUpTo(alphabet, n - 1)
         IN  shorter \cup { Append(t, ch) : t \in shorter, ch \in alphabet }

HelloWorld2024 == <<"H", "e", "l", "l", "o", ",", " ", "W", "o", "r", "l", "d", "!",
                    " ", "2", "0", "2", "4">>
MultipleSpaces == <<" ", " ", "-", "-", "M", "u", "l", "t", "i", "p", "l", "e",
                    " ", " ", " ", "S", "p", "a", "c", "e", "s", "-", "-", " ", " ">>
MyPost         == <<"M", "y", " ", "P", "o", "s", "t">>

TitleAlphabet == {"A", "b", " ", "-", "_", "!"}
Titles == StringsUpTo(TitleAlphabet, MaxTitle) \cup {HelloWorld2024, MultipleSpaces, MyPost}

TextAlphabet == {"a", " "}
Texts  == StringsUpTo(TextAlphabet, MaxText) \ {<< >>}
Widths == 1..MaxWidth

SlugifyCalls  == { [fn |-> "slugify", text |-> t] : t \in Titles }
TruncateCalls == { [fn |-> "truncate_text", text |-> t, max_width |-> w] :
                     t \in Texts, w \in Widths }

\* The entries: each of title, published, updated, summary, content and link
\* is present or absent.
EntryTitles    == {MyPost, <<"A", "!">>}
EntryPublished == {"Tue, 05 Mar 2024 10:00:00 GMT", "2024-11-23T08:30:00Z"}
EntryUpdated   == {"2023-12-31"}
EntrySummaries == {<<"<", "p", ">", "h", "i", "<", "/", "p", ">">>}
EntryContents  == {<<[value |-> <<"<", "b", ">", "b", "o", "d", "y", "<", "/", "b", ">">>]>>}
EntryLinks     == {"https://example.org/post"}

Optional(S) == {{}} \cup { {v} : v \in S }

EntryFields == {"title", "published", "updated", "summary", "content", "link"}

Entries ==
    { [k \in { f \in EntryFields : o[f] # {} } |-> CHOOSE v \in o[k] : TRUE] :
        o \in [title     : Optional(EntryTitles),
               published : Optional(EntryPublished),
               updated   : Optional(EntryUpdated),
               summary   : Optional(EntrySummaries),
               content   : Optional(EntryContents),
               link      : Optional(EntryLinks)] }

\* datetime.now()
Nows == {[y |-> 2026, m |-> 1, d |-> 9]}

EntryCalls ==
    { [fn |-> f, entry |-> e, now |-> n] :
        f \in {"create_table", "display_article", "save_as_markdown"},
        e \in Entries, n \in Nows }

TextCalls == SlugifyCalls \cup TruncateCalls \cup EntryCalls

\* ------------------------------------------------------------ specification
\* One function is applied to one argument list; the views are not running.
TextInit ==
    /\ feed = << >>
    /\ height = 0
    /\ pc = "text"
    /\ ENTRIES_PER_PAGE = 0
    /\ total_pages = 0
    /\ current_page = 0
    /\ article = NoArticle
    /\ CONTENT_HEIGHT = 0
    /\ art_total_pages = 0
    /\ art_current_page = 0
    /\ command = ""
    /\ effects = << >>
    /\ screen = NoScreen
    /\ fn_call \in TextCalls
    /\ fn_result = NoResult

viewVars == <<feed, height, pc, feedLocals, articleLocals, command, effects, screen>>

Returns(value) ==
    /\ fn_result = NoResult
    /\ fn_result' = [done |-> TRUE, value |-> value]
    /\ UNCHANGED <<viewVars, fn_call>>

ApplySlugify ==
    /\ fn_call.fn = "slugify"
    /\ Returns(slugify(fn_call.text))

ApplyTruncate ==
    /\ fn_call.fn = "truncate_text"
    /\ Returns(truncate_text(fn_call.text, fn_call.max_width))

ApplyListRow ==
    /\ fn_call.fn = "create_table"
    /\ Returns(list_row(fn_call.entry, fn_call.now))

ApplyArticleView ==
    /\ fn_call.fn = "display_article"
    /\ Returns(article_view(fn_call.entry, fn_call.now))

ApplyExport ==
    /\ fn_call.fn = "save_as_markdown"
    /\ Returns(export_document(fn_call.entry, fn_call.now))

TextNext ==
    \/ ApplySlugify
    \/ ApplyTruncate
    \/ ApplyListRow
    \/ ApplyArticleView
    \/ ApplyExport

TextSpec == TextInit /\ [][TextNext]_vars

\* ================================================================== claims
\* A step of display_feed's loop handling command c: the terminal is not
\* being resized and the list view is reading commands.
FeedStep(c) == pc = "listing" /\ height' = height /\ command' = c

\* A step of display_article's loop handling command c
ArticleStep(c) == pc = "article" /\ height' = height /\ command' = c

\* get_page_entries(1) \o ... \o get_page_entries(p)
RECURSIVE ConcatPages(_, _, _)
ConcatPages(p, entries, epp) ==
    IF p < 1 THEN << >>
    ELSE ConcatPages(p - 1, entries, epp) \o get_page_entries(p, entries, epp)

\* C1: whenever display_feed runs, the list pages 1..total_pages concatenated
\* in order are exactly feed.entries.
C1_PagesPartitionFeed ==
    pc \in {"listing", "article"}
        => ConcatPages(total_pages, feed, ENTRIES_PER_PAGE) = feed

\* C2: with an empty feed the list view has exactly one page and shows
\* "page 1 of 1", and every command other than quit leaves the view unchanged.
C2_EmptyFeedOnePage ==
    [][ (pc = "listing" /\ feed = << >>)
          => /\ total_pages = 1
             /\ screen.page = 1
             /\ screen.of = 1
             /\ (height' = height /\ command' # "q"
                   => UNCHANGED <<pc, feedLocals, articleLocals, screen>>) ]_vars

\* C3: in Listing 'k' adds one to the page below the last page and is a no-op
\* otherwise, 'j' subtracts one above the first page and is a no-op otherwise,
\* and the list page stays between the first and the last page.
C3_ListPagingInRange ==
    [][ (pc = "listing" /\ height' = height)
          => /\ (command' = "k"
                   => /\ pc' = "listing"
                      /\ current_page' = IF current_page < total_pages
                                         THEN current_page + 1 ELSE current_page)
             /\ (command' = "j"
                   => /\ pc' = "listing"
                      /\ current_page' = IF current_page > 1
                                         THEN current_page - 1 ELSE current_page)
             /\ (pc' = "listing"
                   => 1 <= current_page' /\ current_page' <= total_pages') ]_vars

\* C4: in Listing a numeric command n with 1 <= n <= entry_count opens the
\* article view of feed.entries[n-1] at that article's first page.
C4_SelectOpensEntry ==
    [][ \A n \in 1..Len(feed) :
          FeedStep(ToString(n))
            => /\ pc' = "article"
               /\ article' = feed[n]
               /\ art_current_page' = 1
               /\ screen'.view = "article"
               /\ screen'.id = feed[n].id
               /\ screen'.page = 1 ]_vars

\* C5: the list page is left alone by selecting an entry and by every step
\* taken inside the article view, and 'q' in the article view returns to
\* Listing showing that same list page.
C5_BackKeepsListPage ==
    [][ /\ (pc = "listing" /\ pc' = "article" => current_page' = current_page)
        /\ (pc = "article" => current_page' = current_page)
        /\ (ArticleStep("q")
              => /\ pc' = "listing"
                 /\ screen'.view = "feed"
                 /\ screen'.page = current_page) ]_vars

\* C5 witness: back in the list on its second page right after 'q' in an article
C5_Witness ==
    /\ pc = "listing"
    /\ command = "q"
    /\ current_page = 2
    /\ screen.view = "feed"
    /\ screen.page = 2

\* C6: in Listing an out-of-range number and any unrecognized command leave
\* the view in Listing on the same page, open no article and raise nothing.
C6_InvalidIgnored ==
    [][ ( /\ pc = "listing"
          /\ height' = height
          /\ command' \notin {"q", "k", "j"}
          /\ ~(IntParses(command') /\ int(command') \in 1..Len(feed)) )
          => /\ pc' = "listing"
             /\ effects' = << >>
             /\ UNCHANGED <<feedLocals, articleLocals, screen>> ]_vars

\* C7: every render paginates against the terminal's current height.
C7_RenderUsesCurrentHeight ==
    [][ height' = height
          => /\ (pc' = "listing"
                   => ENTRIES_PER_PAGE'
                        = PyFloorDiv(height' - HEADER_FOOTER_LINES, LINES_PER_ENTRY))
             /\ (pc' = "listing"
                   => total_pages' = PyCeilDiv(Len(feed), ENTRIES_PER_PAGE'))
             /\ (pc' = "article"
                   => CONTENT_HEIGHT' = height' - ARTICLE_RESERVED) ]_vars

\* the last step's export raised an I/O error
ExportFailed(e) == \E i \in 1..Len(e) : e[i].call = "raise OSError"

\* the exporter calls among the last step's calls
ExportCalls(e) == { i \in 1..Len(e) : e[i].call = "save_as_markdown" }

\* C8: when the export started by 's' fails with an I/O error the view loop
\* continues: the session is still in a view that accepts commands.
C8_ExportErrorNotFatal ==
    [][ (ArticleStep("s") /\ ExportFailed(effects'))
          => pc' \in {"listing", "article"} ]_vars

\* C9: 's' in the article view calls the exporter exactly once, for the open
\* entry, and returns to Listing on the unchanged list page; the program goes on.
C9_SaveExportsOnceThenList ==
    [][ ArticleStep("s")
          => /\ Cardinality(ExportCalls(effects')) = 1
             /\ \A i \in ExportCalls(effects') : effects'[i].arg = article.id
             /\ pc' = "listing"
             /\ current_page' = current_page ]_vars

\* C10: 'o' in the article view hands the open entry's link to the browser
\* opener and leaves the view on the same entry, article page and list page.
C10_OpenKeepsState ==
    [][ ArticleStep("o")
          => /\ effects' = <<[call |-> "webbrowser.open", arg |-> article.link]>>
             /\ pc' = "article"
             /\ UNCHANGED <<feedLocals, articleLocals>>
             /\ screen'.view = "article"
             /\ screen'.id = article.id
             /\ screen'.page = art_current_page ]_vars

\* C10 witness: the browser was just opened from the second page of an article
C10_Witness ==
    /\ pc = "article"
    /\ command = "o"
    /\ effects = <<[call |-> "webbrowser.open", arg |-> article.link]>>
    /\ art_current_page = 2
    /\ screen.view = "article"
    /\ screen.page = 2

\* get_page_content(1) \o ... \o get_page_content(p), as lines
RECURSIVE ConcatContent(_, _, _)
ConcatContent(p, lines, ch) ==
    IF p < 1 THEN << >>
    ELSE ConcatContent(p - 1, lines, ch) \o get_page_content(p, lines, ch)

\* C16: whenever an article is open its page capacity is at least 1 and its
\* pages 1..total_pages concatenated in order are exactly the article's lines.
C16_ArticlePagesPartition ==
    pc = "article"
        => /\ CONTENT_HEIGHT >= 1
           /\ ConcatContent(art_total_pages, Lines(article), CONTENT_HEIGHT)
                = Lines(article)

\* C17: in the article view 'k' and 'j' move the article page by exactly one
\* inside 1..total_pages and are no-ops at the bounds, the article page stays
\* in that range, and neither changes the list page or the open entry.
C17_ArticlePagingInRange ==
    [][ (pc = "article" /\ height' = height)
          => /\ (command' = "k"
                   => /\ pc' = "article"
                      /\ art_current_page' = IF art_current_page < art_total_pages
                                             THEN art_current_page + 1
                                             ELSE art_current_page
                      /\ UNCHANGED <<current_page, article>>)
             /\ (command' = "j"
                   => /\ pc' = "article"
                      /\ art_current_page' = IF art_current_page > 1
                                             THEN art_current_page - 1
                                             ELSE art_current_page
                      /\ UNCHANGED <<current_page, article>>)
             /\ (pc' = "article"
                   => 1 <= art_current_page'
                      /\ art_current_page' <= art_total_pages') ]_vars

\* C18: 'q' in Listing ends the program, nothing happens after Done, and 'q'
\* in the article view goes to Listing, never to Done.
C18_QuitOnlyFromListing ==
    [][ /\ (FeedStep("q") => pc' = "done")
        /\ (ArticleStep("q") => pc' = "listing")
        /\ (pc = "article" => pc' # "done")
        /\ (pc' = "done" => pc = "listing" /\ command' = "q")
        /\ pc # "done" ]_vars

\* C18 witness: the program ended by 'q' from the second list page
C18_Witness ==
    /\ pc = "done"
    /\ command = "q"
    /\ current_page = 2

\* the numbers shown on list pages 1..p
RECURSIVE ShownNumbers(_, _, _)
ShownNumbers(p, entries, epp) ==
    IF p < 1 THEN << >>
    ELSE ShownNumbers(p - 1, entries, epp)
         \o [k \in 1..Len(get_page_entries(p, entries, epp)) |->
               create_table(get_page_entries(p, entries, epp), p, epp)[k].num]

\* C19: the number shown beside an entry is its 1-based position in the feed,
\* and the numbers shown over all list pages are 1..entry_count, each once.
C19_ShownNumbersArePositions ==
    pc = "listing"
        => /\ \A k \in 1..Len(screen.rows) :
                /\ screen.rows[k].num \in 1..Len(feed)
                /\ feed[screen.rows[k].num].id = screen.rows[k].id
           /\ ShownNumbers(total_pages, feed, ENTRIES_PER_PAGE)
                = [i \in 1..Len(feed) |-> i]

\* the call fn of the text specification has returned
Returned(fn) == fn_call.fn = fn /\ fn_result.done

HasUpper(text) == \E i \in 1..Len(text) : \E j \in 1..26 : UpperLetters[j] = text[i]

\* C15: slugify's result is lowercase, made of word characters and hyphens
\* only, has no two adjacent hyphens and no hyphen at either end; it is the
\* title's kept characters with each separator run turned into one hyphen; and
\* the two examples give "hello-world-2024" and "multiple-spaces".
C15_SlugShape ==
    Returned("slugify")
        => LET slug == fn_result.value
               kept == RemoveNonSlug(fn_call.text)
           IN  /\ ~HasUpper(slug)
               /\ \A i \in 1..Len(slug) : IsWordChar(slug[i]) \/ slug[i] = "-"
               /\ \A i \in 1..(Len(slug) - 1) : ~(slug[i] = "-" /\ slug[i + 1] = "-")
               /\ slug # << >> => (slug[1] # "-" /\ slug[Len(slug)] # "-")
               /\ SelectSeq(slug, IsWordChar)
                    = [i \in 1..Len(SelectSeq(kept, IsWordChar)) |->
                         Lower(SelectSeq(kept, IsWordChar)[i])]
               /\ (fn_call.text = HelloWorld2024
                     => slug = <<"h", "e", "l", "l", "o", "-", "w", "o", "r", "l", "d",
                                 "-", "2", "0", "2", "4">>)
               /\ (fn_call.text = MultipleSpaces
                     => slug = <<"m", "u", "l", "t", "i", "p", "l", "e", "-",
                                 "s", "p", "a", "c", "e", "s">>)

\* C15 witness: a title with leading and trailing separators has been slugified
C15_Witness ==
    /\ Returned("slugify")
    /\ fn_call.text = MultipleSpaces
    /\ fn_result.value # << >>

\* C13: for non-empty text and width >= 1 the result of truncate_text is at
\* most width characters long.
C13_TruncatedFits ==
    (Returned("truncate_text") /\ fn_call.text # << >> /\ fn_call.max_width >= 1)
        => Len(fn_result.value) <= fn_call.max_width

\* cutting text after its first k characters splits a word
CutsWord(text, k) ==
    /\ 1 <= k /\ k < Len(text)
    /\ ~IsSpaceChar(text[k])
    /\ ~IsSpaceChar(text[k + 1])

\* the lengths of the non-empty whole-word prefixes of text within limit characters
WholeWordLens(text, limit) ==
    { k \in 1..limit : k <= Len(text) /\ ~CutsWord(text, k) }

SetMax(S) == CHOOSE k \in S : \A j \in S : j <= k

\* C14: for text longer than max_width, truncate_text returns the longest
\* whole-word prefix that fits in max_width - 1 characters followed by the
\* ellipsis marker; it cuts inside a word only when no whole-word prefix fits.
C14_TruncateKeepsWords ==
    (Returned("truncate_text") /\ Len(fn_call.text) > fn_call.max_width)
        => LET text == fn_call.text
               fits == WholeWordLens(text, fn_call.max_width - 1)
           IN  IF fits # {}
               THEN fn_result.value = SubSeq(text, 1, SetMax(fits)) \o Ellipsis
               ELSE \E k \in 0..Len(text) :
                       fn_result.value = SubSeq(text, 1, k) \o Ellipsis

\* the date the export is to use: published, else updated, else today
ResolvedDate(entry, now) ==
    IF "published" \in DOMAIN entry THEN ParseDate(entry.published)
    ELSE IF "updated" \in DOMAIN entry THEN ParseDate(entry.updated)
    ELSE now

\* C11: the export path is articles/<date>-<slug>.md with <date> the entry's
\* published (else updated, else the current) date as YYYY-MM-DD; "My Post"
\* published on 2024-03-05 goes to articles/2024-03-05-my-post.md.
C11_ExportPath ==
    Returned("save_as_markdown")
        => LET entry == fn_call.entry
           IN  /\ fn_result.value.filename
                    = ArticlesDir \o StrfIso(ResolvedDate(entry, fn_call.now)) \o <<"-">>
                        \o slugify(Get(entry, "title", Untitled)) \o MdSuffix
               /\ ( ( /\ Get(entry, "title", Untitled) = MyPost
                      /\ Get(entry, "published", None) = "Tue, 05 Mar 2024 10:00:00 GMT" )
                    => fn_result.value.filename = <<"a", "r", "t", "i", "c", "l", "e", "s", "/", "2", "0", "2", "4", "-", "0", "3", "-", "0", "5", "-", "m", "y", "-", "p", "o", "s", "t", ".", "m", "d">> )

Absent(entry, field) == field \notin DOMAIN entry

\* C12: with any subset of title, dates, summary and content absent, the list
\* row, the article view and the export are produced without an error, and
\* each absent field shows its fallback.
C12_MissingFieldsFallBack ==
    LET entry == fn_call.entry
        v     == fn_result.value
        undated == Absent(entry, "published") /\ Absent(entry, "updated")
        body  == IF Absent(entry, "summary") THEN NoContent ELSE entry.summary
    IN  /\ Returned("create_table")
            => /\ v.date # KeyError /\ v.title # KeyError /\ v.summary # KeyError
               /\ (Absent(entry, "title") => v.title = NoTitle)
               /\ (undated => v.date = NoDate)
               /\ (Absent(entry, "summary") => v.summary = NoSummary)
        /\ Returned("display_article")
            => /\ v.date # KeyError /\ v.title # KeyError /\ v.content # KeyError
               /\ (Absent(entry, "title") => v.title = NoTitle)
               /\ (undated => v.date = NoDate)
               /\ (Absent(entry, "content") => v.content = body)
        /\ Returned("save_as_markdown")
            => /\ v.date # KeyError /\ v.title # KeyError /\ v.content # KeyError
               /\ (Absent(entry, "title") => v.title = Untitled)
               /\ (undated => v.date = StrfIso(fn_call.now))
               /\ (Absent(entry, "content") => v.content = body)

\* C12 witness: an entry with no field at all has been exported
C12_Witness ==
    /\ Returned("save_as_markdown")
    /\ DOMAIN fn_call.entry = {}
    /\ fn_result.value.title = Untitled
    /\ fn_result.value.content = NoContent
====
